---- MODULE Spec2Model ----
(***************************************************************************)
(* Include processing of the C/C++ indexer:                                *)
(*   IncludeProcessing::getUnresolvedIncludeDirectives                     *)
(*   IncludeProcessing::getHeaderSearchDirectories                         *)
(* and their helpers splitToQuantiles, getIncludeDirectives and            *)
(* resolveIncludeDirective (src/lib_cxx/utility/IncludeProcessing.cpp).    *)
(*                                                                         *)
(* A path is the sequence of its elements as written: <<"/","p","a">> is   *)
(* /p/a, <<"..","p","b">> is ../p/b, << >> is the empty FilePath.  A text  *)
(* line is a sequence of tokens.  Two spellings of one file are different  *)
(* values; only makeCanonical maps them to one.                            *)
(***************************************************************************)
EXTENDS Integers, Sequences, FiniteSets, TLC

----------------------------------------------------------------------------
(* Bounds of the model *)

\* longest path, in elements, the file system accepts (PATH_MAX)
MaxPathLen == 6

\* largest desiredQuantileCount a caller passes
MaxQuantileCount == 2

\* the per-file extraction counter saturates here
MaxExtract == 2

\* most lines of a text handed to the extractor on its own
MaxLines == 2

----------------------------------------------------------------------------
(* FilePath: utility/file/FilePath.h *)

\* rank of a path element in the order of the path comparison
Rank(t) ==
    CASE t = ".." -> 0
      [] t = "/"  -> 1
      [] t = "a"  -> 2
      [] t = "b"  -> 3
      [] t = "c"  -> 4
      [] t = "e"  -> 5
      [] t = "m"  -> 6
      [] t = "p"  -> 7
      [] t = "v"  -> 8
      [] t = "x"  -> 9
      [] OTHER    -> 10

\* FilePath::operator< : element-wise lexicographic order of the spellings
RECURSIVE PathLess(_, _)
PathLess(p, q) ==
    IF q = << >> THEN FALSE
    ELSE IF p = << >> THEN TRUE
    ELSE IF Rank(Head(p)) < Rank(Head(q)) THEN TRUE
    ELSE IF Rank(Head(p)) > Rank(Head(q)) THEN FALSE
    ELSE PathLess(Tail(p), Tail(q))

\* iteration order of a std::set<FilePath>
RECURSIVE SortPaths(_)
SortPaths(S) ==
    IF S = {} THEN << >>
    ELSE LET least == CHOOSE p \in S : \A q \in S \ {p} : PathLess(p, q)
         IN  <<least>> \o SortPaths(S \ {least})

\* the process working directory
Cwd == <<"/", "p">>

\* FilePath::empty
empty(p) == p = << >>

\* FilePath::isAbsolute
isAbsolute(p) == p # << >> /\ Head(p) = "/"

\* FilePath::getAbsolute : resolve against the process working directory
getAbsolute(p) == IF isAbsolute(p) THEN p ELSE Cwd \o p

\* FilePath::getParentDirectory : the spelling without its last element
getParentDirectory(p) ==
    IF Len(p) <= 1 THEN << >> ELSE SubSeq(p, 1, Len(p) - 1)

\* FilePath::concatenate / getConcatenated : append the elements of q
concatenate(p, q) ==
    IF p = << >> THEN q
    ELSE p \o (IF isAbsolute(q) THEN Tail(q) ELSE q)

\* FilePath::contains : p is a prefix (ancestor) of q
contains(p, q) ==
    /\ p # << >>
    /\ Len(p) <= Len(q)
    /\ SubSeq(q, 1, Len(p)) = p

----------------------------------------------------------------------------
(* The file system *)

\* the files on disk, by canonical path
Files == { <<"/", "c">>, <<"/", "p", "a">>, <<"/", "p", "b">>,
           <<"/", "x", "b">>, <<"/", "x", "e">> }

\* the directories on disk
Dirs == { <<"/">>, <<"/", "p">>, <<"/", "x">> }

\* directory lookup, element by element, from directory cur; << >> on failure
RECURSIVE Lookup(_, _)
Lookup(cur, rest) ==
    IF rest = << >> THEN cur
    ELSE IF cur \notin Dirs THEN << >>
    ELSE IF Head(rest) = ".."
         THEN Lookup(IF Len(cur) <= 1 THEN cur ELSE SubSeq(cur, 1, Len(cur) - 1),
                     Tail(rest))
         ELSE IF (cur \o <<Head(rest)>>) \in (Files \cup Dirs)
              THEN Lookup(cur \o <<Head(rest)>>, Tail(rest))
              ELSE << >>

\* the file or directory a spelling names, << >> if it names none
Target(p) ==
    IF p = << >> \/ Len(p) > MaxPathLen THEN << >>
    ELSE Lookup(<<"/">>, Tail(getAbsolute(p)))

\* FilePath::exists
exists(p) == Target(p) # << >>

\* lexical removal of ".." from an absolute spelling
RECURSIVE Normalize(_, _)
Normalize(done, rest) ==
    IF rest = << >> THEN done
    ELSE IF Head(rest) = ".."
         THEN Normalize(IF Len(done) <= 1 THEN done
                        ELSE SubSeq(done, 1, Len(done) - 1), Tail(rest))
         ELSE Normalize(done \o <<Head(rest)>>, Tail(rest))

\* FilePath::makeCanonical : the unique absolute spelling without ".."
makeCanonical(p) ==
    IF p = << >> THEN << >>
    ELSE IF exists(p) THEN Target(p)
    ELSE Normalize(<<"/">>, Tail(getAbsolute(p)))

----------------------------------------------------------------------------
(* Text: utility/utilityString.h, utility/text/TextAccess.h *)

\* a line holding an angle-bracket include of the path w
AngleLine(w) == <<"#", "include", " ", "<">> \o w \o <<">">>

\* a line holding a quoted include of the path w, indented
QuoteLine(w) == <<" ", "#", " ", "include", " ", "\"">> \o w \o <<"\"", " ">>

\* utility::trim : strip the white space at both ends
RECURSIVE trim(_)
trim(s) ==
    IF s = << >> THEN s
    ELSE IF Head(s) = " " THEN trim(Tail(s))
    ELSE IF s[Len(s)] = " " THEN trim(SubSeq(s, 1, Len(s) - 1))
    ELSE s

\* utility::isPrefix
isPrefix(pre, s) == Len(pre) <= Len(s) /\ SubSeq(s, 1, Len(pre)) = pre

\* std::string::find : the first position >= from holding d, 0 if none
find(s, d, from) ==
    LET hits == { k \in from..Len(s) : s[k] = d }
    IN  IF hits = {} THEN 0 ELSE CHOOSE k \in hits : \A j \in hits : k <= j

\* utility::substrBetween : the text between the first d1 and the next d2
substrBetween(s, d1, d2) ==
    LET first == find(s, d1, 1)
        second == IF first = 0 THEN 0 ELSE find(s, d2, first + 1)
    IN  IF first = 0 \/ second = 0 THEN << >>
        ELSE SubSeq(s, first + 1, second - 1)

----------------------------------------------------------------------------
(* State *)

VARIABLES
    fileContent,                    \* the lines of every file on disk
    call,                           \* which entry point is running
    sourceFilePaths,                \* argument
    indexedPaths,                   \* argument of getUnresolvedIncludeDirectives
    searchedPaths,                  \* argument of getHeaderSearchDirectories
    currentHeaderSearchDirectories, \* argument: the known search roots
    desiredQuantileCount,           \* argument
    pc,                             \* position in the running call
    quantiles,                      \* result of splitToQuantiles
    i,                              \* index of the current quantile, 0-based
    filePathsToProcess,             \* the frontier of the current quantile
    processedFilePaths,             \* the memo shared by all quantiles
    directives,                     \* vector built by doGetUnresolvedIncludeDirectives
    unresolvedIncludeDirectives,    \* std::set ordered by included file
    headerSearchDirectories,        \* result set of getHeaderSearchDirectories
    ret,                            \* value returned by getUnresolvedIncludeDirectives
    progressLog,                    \* values passed to the progress callback
    extractCount,                   \* per file: times its directives were extracted
    expandedPaths,                  \* spellings whose directives were extracted
    stepParity                      \* parity of the number of steps executed

vars == << fileContent, call, sourceFilePaths, indexedPaths, searchedPaths,
           currentHeaderSearchDirectories, desiredQuantileCount, pc, quantiles,
           i, filePathsToProcess, processedFilePaths, directives,
           unresolvedIncludeDirectives, headerSearchDirectories, ret,
           progressLog, extractCount, expandedPaths, stepParity >>

inputs == << fileContent, call, sourceFilePaths, indexedPaths, searchedPaths,
             currentHeaderSearchDirectories, desiredQuantileCount >>

----------------------------------------------------------------------------
(* Include Directive Extractor *)

\* IncludeDirective constructor
IncludeDirective(includedFile, includingFile, lineNumber, usesBrackets) ==
    [ includedFile |-> includedFile, includingFile |-> includingFile,
      lineNumber |-> lineNumber, usesBrackets |-> usesBrackets ]

\* the directive of one line, as a sequence of zero or one directives
DirectiveOfLine(line, filePath, lineNumber) ==
    LET lineTrimmedToHash == trim(line)
    IN  IF ~isPrefix(<<"#">>, lineTrimmedToHash) THEN << >>
        ELSE
          LET lineTrimmedToInclude == trim(Tail(lineTrimmedToHash))
          IN  IF ~isPrefix(<<"include">>, lineTrimmedToInclude) THEN << >>
              ELSE
                LET inAngles == substrBetween(lineTrimmedToInclude, "<", ">")
                    usesBrackets == inAngles # << >>
                    includeString ==
                        IF inAngles # << >> THEN inAngles
                        ELSE substrBetween(lineTrimmedToInclude, "\"", "\"")
                IN  IF includeString = << >> THEN << >>
                    ELSE << IncludeDirective(includeString, filePath,
                                             lineNumber, usesBrackets) >>

\* getIncludeDirectives(textAccess) : the directives of lines k..Len(lines)
RECURSIVE DirectivesOfLines(_, _, _)
DirectivesOfLines(lines, filePath, k) ==
    IF k > Len(lines) THEN << >>
    ELSE DirectiveOfLine(lines[k], filePath, k)
         \o DirectivesOfLines(lines, filePath, k + 1)

\* TextAccess::createFromFile(filePath)->getAllLines()
getAllLines(filePath) ==
    IF Target(filePath) \in Files THEN fileContent[Target(filePath)] ELSE << >>

\* getIncludeDirectives(filePath)
getIncludeDirectives(filePath) ==
    IF exists(filePath)
    THEN DirectivesOfLines(getAllLines(filePath), filePath, 1)
    ELSE << >>

----------------------------------------------------------------------------
(* Include Resolver *)

\* a plausible slip: the loop does not stop at the first hit, so that the
\* last directory under which the path exists wins
RECURSIVE LastExisting(_, _)
LastExisting(dirs, includedFilePath) ==
    IF dirs = << >> THEN << >>
    ELSE IF exists(concatenate(dirs[Len(dirs)], includedFilePath))
         THEN concatenate(dirs[Len(dirs)], includedFilePath)
         ELSE LastExisting(SubSeq(dirs, 1, Len(dirs) - 1), includedFilePath)

\* the first directory of the sequence under which the path exists, or << >>
RECURSIVE FirstExisting(_, _)
FirstExisting(dirs, includedFilePath) ==
    IF dirs = << >> THEN << >>
    ELSE IF exists(concatenate(Head(dirs), includedFilePath))
         THEN concatenate(Head(dirs), includedFilePath)
         ELSE FirstExisting(Tail(dirs), includedFilePath)

\* a plausible slip: the search directories are tried before the including file
resolveSearchDirectoriesFirst(includeDirective, searchDirectories) ==
    LET includedFilePath == includeDirective.includedFile
        relative == concatenate(getParentDirectory(includeDirective.includingFile),
                                includedFilePath)
        viaRoots == FirstExisting(SortPaths(searchDirectories), includedFilePath)
    IN  IF isAbsolute(includedFilePath) /\ exists(includedFilePath)
        THEN includedFilePath
        ELSE IF viaRoots # << >> THEN viaRoots
        ELSE IF exists(relative) THEN relative
        ELSE << >>

\* IncludeProcessing::resolveIncludeDirective
resolveIncludeDirective(includeDirective, searchDirectories) ==
    LET includedFilePath == includeDirective.includedFile
        relative == concatenate(getParentDirectory(includeDirective.includingFile),
                                includedFilePath)
    IN  IF isAbsolute(includedFilePath) /\ exists(includedFilePath)
        THEN includedFilePath
        ELSE IF exists(relative) THEN relative
        ELSE FirstExisting(SortPaths(searchDirectories), includedFilePath)

----------------------------------------------------------------------------
(* Directory snapshots: utility/file/FileTree.h *)

\* FileTree(rootPath)::getAbsoluteRootPathForRelativeFilePath
getAbsoluteRootPathForRelativeFilePath(rootPath, relativeFilePath) ==
    LET n == Len(relativeFilePath)
        matches == { f \in Files :
                       /\ n >= 1
                       /\ n < Len(f)
                       /\ SubSeq(f, Len(f) - n + 1, Len(f)) = relativeFilePath
                       /\ contains(rootPath, SubSeq(f, 1, Len(f) - n)) }
    IN  IF matches = {} THEN << >>
        ELSE LET f == SortPaths(matches)[1] IN SubSeq(f, 1, Len(f) - n)

----------------------------------------------------------------------------
(* Quantile Partitioner *)

Min(a, b) == IF a < b THEN a ELSE b
Max(a, b) == IF a > b THEN a ELSE b

\* a plausible slip: the counter is never incremented, so that every file
\* goes to the quantile the round starts with
RECURSIVE DistributeWithoutIncrement(_, _, _)
DistributeWithoutIncrement(qs, files, k) ==
    IF files = << >> THEN qs
    ELSE DistributeWithoutIncrement(
           [qs EXCEPT ![(k % Len(qs)) + 1] = Append(@, Head(files))],
           Tail(files), k)

\* a plausible slip: the round starts at the second quantile
RECURSIVE DistributeFromSecond(_, _, _)
DistributeFromSecond(qs, files, k) ==
    IF files = << >> THEN qs
    ELSE DistributeFromSecond(
           [qs EXCEPT ![((k + 1) % Len(qs)) + 1] = Append(@, Head(files))],
           Tail(files), k + 1)

\* the loop of lines 35-40: file number k (0-based) goes to quantile k % count
RECURSIVE Distribute(_, _, _)
Distribute(qs, files, k) ==
    IF files = << >> THEN qs
    ELSE Distribute(
           [qs EXCEPT ![(k % Len(qs)) + 1] = Append(@, Head(files))],
           Tail(files), k + 1)

\* a plausible slip: the count is not limited by the number of files
splitWithoutSizeLimit(paths, desiredCount) ==
    Distribute([k \in 1..Max(1, desiredCount) |-> << >>], SortPaths(paths), 0)

\* splitToQuantiles
splitToQuantiles(paths, desiredCount) ==
    LET quantileCount == Max(1, Min(desiredCount, Cardinality(paths)))
    IN  Distribute([k \in 1..quantileCount |-> << >>], SortPaths(paths), 0)

\* utility::toSet
toSet(s) == { s[k] : k \in 1..Len(s) }

----------------------------------------------------------------------------
(* Progress values: a float is kept as the fraction num/den *)

\* a plausible slip: the share of quantiles still to do is reported
ShardProgressRemaining(k, n) == [num |-> n - k, den |-> n]

\* a plausible slip: the quantile is counted before it is processed
ShardProgressOffByOne(k, n) == [num |-> k + 1, den |-> n]

\* progress(float(i) / quantiles.size())
ShardProgress(k, n) == [num |-> k, den |-> n]

\* progress(0.0f)
InitialProgress == [num |-> 0, den |-> 1]

\* progress(1.0f)
FinalProgress == [num |-> 1, den |-> 1]

----------------------------------------------------------------------------
(* Steps shared by both walks *)

\* the directives of the files of one frontier, in iteration order
RECURSIVE DirectivesOfFiles(_)
DirectivesOfFiles(paths) ==
    IF paths = << >> THEN << >>
    ELSE getIncludeDirectives(Head(paths)) \o DirectivesOfFiles(Tail(paths))

\* bookkeeping: one extraction for every frontier path that names a file
CountExtractions(frontier) ==
    [f \in Files |->
        Min(MaxExtract,
            extractCount[f] + Cardinality({ q \in frontier : Target(q) = f }))]

----------------------------------------------------------------------------
(* Unresolved Directive Discovery *)

\* key under which a frontier file enters the memo (line 217)
ProcessedKeyUnresolved(q) == makeCanonical(getAbsolute(q))

\* line 226: resolve, then canonicalize
ResolvedIncludePath(includeDirective) ==
    makeCanonical(resolveIncludeDirective(includeDirective,
                                          currentHeaderSearchDirectories))

\* a plausible slip: the loop over the directives stops at the first one
\* that does not resolve, so that only this one is pushed
UnresolvedOfLevelStoppingAtFirst(ds) ==
    LET unresolved == SelectSeq(ds, LAMBDA d :
                          empty(makeCanonical(resolveIncludeDirective(
                                    d, currentHeaderSearchDirectories))))
    IN  IF unresolved = << >> THEN << >> ELSE << Head(unresolved) >>

\* lines 227-230: the directives of the level that are pushed as unresolved
UnresolvedOfLevel(ds) ==
    SelectSeq(ds, LAMBDA d : empty(ResolvedIncludePath(d)))

\* lines 233-240: some indexed path contains the resolved path
InsideIndexedPaths(resolvedIncludePath) ==
    \E indexedPath \in indexedPaths : contains(indexedPath, resolvedIncludePath)

\* a plausible slip: the indexed paths are not consulted
NextFilePathsIgnoringIndexedPaths(ds, processed) ==
    { r \in { ResolvedIncludePath(ds[k]) : k \in 1..Len(ds) } :
        ~empty(r) /\ r \notin processed }

\* a plausible slip: resolved includes are never followed
NextFilePathsNone(ds, processed) == {}

\* lines 231-241: the frontier of the next iteration
NextFilePathsToProcess(ds, processed) ==
    { r \in { ResolvedIncludePath(ds[k]) : k \in 1..Len(ds) } :
        /\ ~empty(r)
        /\ r \notin processed
        /\ InsideIndexedPaths(r) }

\* a plausible slip: the directives are kept in a vector, in arrival order
InsertDirectiveAppending(set, d) == Append(set, d)

\* a plausible slip: a directive whose included path is present replaces
\* the one that is there, as an assignment to a map entry does
InsertDirectiveReplacing(set, d) ==
    IF \E k \in 1..Len(set) : set[k].includedFile = d.includedFile
    THEN [k \in 1..Len(set) |->
            IF set[k].includedFile = d.includedFile THEN d ELSE set[k]]
    ELSE LET before == SelectSeq(set,
                         LAMBDA e : PathLess(e.includedFile, d.includedFile))
             after  == SelectSeq(set,
                         LAMBDA e : PathLess(d.includedFile, e.includedFile))
         IN  before \o <<d>> \o after

\* std::set<IncludeDirective, IncludeDirectiveComparator>::insert
InsertDirective(set, d) ==
    IF \E k \in 1..Len(set) : set[k].includedFile = d.includedFile THEN set
    ELSE LET before == SelectSeq(set,
                         LAMBDA e : PathLess(e.includedFile, d.includedFile))
             after  == SelectSeq(set,
                         LAMBDA e : PathLess(d.includedFile, e.includedFile))
         IN  before \o <<d>> \o after

\* a plausible slip: the set is assigned the directives of the quantile, so
\* that what earlier quantiles found is lost
RECURSIVE CopyReplacingEarlier(_, _)
CopyReplacingEarlier(set, ds) ==
    IF ds = << >> THEN << >>
    ELSE InsertDirective(CopyReplacingEarlier(set, SubSeq(ds, 1, Len(ds) - 1)),
                         ds[Len(ds)])

\* line 68: std::copy into the set through an inserter
RECURSIVE CopyInto(_, _)
CopyInto(set, ds) ==
    IF ds = << >> THEN set
    ELSE CopyInto(InsertDirective(set, Head(ds)), Tail(ds))

\* lines 53-56
BeginUnresolved ==
    /\ pc = "start" /\ call = "unresolved"
    /\ quantiles' = splitToQuantiles(sourceFilePaths, desiredQuantileCount)
    /\ pc' = "quantile"
    /\ stepParity' = ~stepParity
    /\ UNCHANGED << inputs, i, filePathsToProcess, processedFilePaths,
                    directives, unresolvedIncludeDirectives,
                    headerSearchDirectories, ret, progressLog, extractCount,
                    expandedPaths >>

\* a plausible slip: the indexed paths are applied to the source files too
QuantileUnresolvedInsideOnly ==
    /\ pc = "quantile" /\ call = "unresolved"
    /\ i < Len(quantiles)
    /\ progressLog' = Append(progressLog, ShardProgress(i, Len(quantiles)))
    /\ filePathsToProcess' =
           { q \in toSet(quantiles[i + 1]) :
               InsideIndexedPaths(ProcessedKeyUnresolved(q)) }
    /\ directives' = << >>
    /\ pc' = "walk"
    /\ stepParity' = ~stepParity
    /\ UNCHANGED << inputs, quantiles, i, processedFilePaths,
                    unresolvedIncludeDirectives, headerSearchDirectories, ret,
                    extractCount, expandedPaths >>

\* lines 58-63: report progress and enter doGetUnresolvedIncludeDirectives
QuantileUnresolved ==
    /\ pc = "quantile" /\ call = "unresolved"
    /\ i < Len(quantiles)
    /\ progressLog' = Append(progressLog, ShardProgress(i, Len(quantiles)))
    /\ filePathsToProcess' = toSet(quantiles[i + 1])
    /\ directives' = << >>
    /\ pc' = "walk"
    /\ stepParity' = ~stepParity
    /\ UNCHANGED << inputs, quantiles, i, processedFilePaths,
                    unresolvedIncludeDirectives, headerSearchDirectories, ret,
                    extractCount, expandedPaths >>

\* lines 212-246: one iteration of the while loop
LevelUnresolved ==
    /\ pc = "walk" /\ call = "unresolved"
    /\ filePathsToProcess # {}
    /\ LET processed == processedFilePaths \cup
                        { ProcessedKeyUnresolved(q) : q \in filePathsToProcess }
           ds == DirectivesOfFiles(SortPaths(filePathsToProcess))
       IN  /\ processedFilePaths' = processed
           /\ directives' = directives \o UnresolvedOfLevel(ds)
           /\ filePathsToProcess' = NextFilePathsToProcess(ds, processed)
    /\ extractCount' = CountExtractions(filePathsToProcess)
    /\ expandedPaths' = expandedPaths \cup filePathsToProcess
    /\ stepParity' = ~stepParity
    /\ UNCHANGED << inputs, pc, quantiles, i, unresolvedIncludeDirectives,
                    headerSearchDirectories, ret, progressLog >>

\* lines 248 and 68: the quantile's directives are merged into the set
ReturnUnresolved ==
    /\ pc = "walk" /\ call = "unresolved"
    /\ filePathsToProcess = {}
    /\ unresolvedIncludeDirectives' =
           CopyInto(unresolvedIncludeDirectives, directives)
    /\ i' = i + 1
    /\ pc' = "quantile"
    /\ stepParity' = ~stepParity
    /\ UNCHANGED << inputs, quantiles, filePathsToProcess, processedFilePaths,
                    directives, headerSearchDirectories, ret, progressLog,
                    extractCount, expandedPaths >>

\* lines 71-80
FinishUnresolved ==
    /\ pc = "quantile" /\ call = "unresolved"
    /\ i >= Len(quantiles)
    /\ ret' = unresolvedIncludeDirectives
    /\ progressLog' = Append(progressLog, FinalProgress)
    /\ pc' = "done"
    /\ stepParity' = ~stepParity
    /\ UNCHANGED << inputs, quantiles, i, filePathsToProcess,
                    processedFilePaths, directives,
                    unresolvedIncludeDirectives, headerSearchDirectories,
                    extractCount, expandedPaths >>

----------------------------------------------------------------------------
(* Header Search Directory Discovery *)

\* key under which a frontier file enters the memo (line 113)
ProcessedKeyHeader(q) == getAbsolute(q)

\* key looked up in the memo for a found include (line 144)
LookupKeyHeader(foundIncludedPath) == foundIncludedPath

\* a plausible slip: no break, the last snapshot that matches wins
RECURSIVE SearchFileTreesLastMatch(_, _, _)
SearchFileTreesLastMatch(trees, includedFilePath, found) ==
    IF trees = << >> THEN [path |-> found, root |-> << >>]
    ELSE LET rest == SearchFileTreesLastMatch(Tail(trees), includedFilePath,
                                              found)
             rootPath == getAbsoluteRootPathForRelativeFilePath(
                             Head(trees), includedFilePath)
         IN  IF ~empty(rest.root) \/ empty(rootPath) THEN rest
             ELSE IF exists(concatenate(rootPath, includedFilePath))
                  THEN [path |-> concatenate(rootPath, includedFilePath),
                        root |-> rootPath]
                  ELSE rest

\* lines 127-140: the snapshots are asked in order; the first root under
\* which the path exists is taken
RECURSIVE SearchFileTrees(_, _, _)
SearchFileTrees(trees, includedFilePath, found) ==
    IF trees = << >> THEN [path |-> found, root |-> << >>]
    ELSE LET rootPath == getAbsoluteRootPathForRelativeFilePath(
                             Head(trees), includedFilePath)
         IN  IF empty(rootPath)
             THEN SearchFileTrees(Tail(trees), includedFilePath, found)
             ELSE IF exists(concatenate(rootPath, includedFilePath))
                  THEN [path |-> concatenate(rootPath, includedFilePath),
                        root |-> rootPath]
                  ELSE SearchFileTrees(Tail(trees), includedFilePath,
                                       concatenate(rootPath, includedFilePath))

\* lines 122-141: the found path of a directive and the root it contributes
FoundIncluded(includeDirective) ==
    LET resolved == resolveIncludeDirective(includeDirective,
                                            currentHeaderSearchDirectories)
    IN  IF ~empty(resolved) THEN [path |-> resolved, root |-> << >>]
        ELSE SearchFileTrees(SortPaths(searchedPaths),
                             includeDirective.includedFile, resolved)

\* lines 136: the roots the directives of one level add to the result
RootsOfLevel(ds) ==
    { FoundIncluded(ds[k]).root : k \in 1..Len(ds) } \ { << >> }

\* lines 142-148: the frontier of the next iteration
NextUnprocessedFilePaths(ds, processed) ==
    { f \in { FoundIncluded(ds[k]).path : k \in 1..Len(ds) } :
        /\ exists(f)
        /\ LookupKeyHeader(f) \notin processed }

\* lines 90-100
BeginHeader ==
    /\ pc = "start" /\ call = "header"
    /\ progressLog' = Append(progressLog, InitialProgress)
    /\ quantiles' = splitToQuantiles(sourceFilePaths, desiredQuantileCount)
    /\ pc' = "quantile"
    /\ stepParity' = ~stepParity
    /\ UNCHANGED << inputs, i, filePathsToProcess, processedFilePaths,
                    directives, unresolvedIncludeDirectives,
                    headerSearchDirectories, ret, extractCount,
                    expandedPaths >>

\* lines 102-106
QuantileHeader ==
    /\ pc = "quantile" /\ call = "header"
    /\ i < Len(quantiles)
    /\ progressLog' = Append(progressLog, ShardProgress(i, Len(quantiles)))
    /\ filePathsToProcess' = toSet(quantiles[i + 1])
    /\ pc' = "walk"
    /\ stepParity' = ~stepParity
    /\ UNCHANGED << inputs, quantiles, i, processedFilePaths, directives,
                    unresolvedIncludeDirectives, headerSearchDirectories, ret,
                    extractCount, expandedPaths >>

\* lines 108-153: one iteration of the while loop
LevelHeader ==
    /\ pc = "walk" /\ call = "header"
    /\ filePathsToProcess # {}
    /\ LET processed == processedFilePaths \cup
                        { ProcessedKeyHeader(q) : q \in filePathsToProcess }
           ds == DirectivesOfFiles(SortPaths(filePathsToProcess))
       IN  /\ processedFilePaths' = processed
           /\ headerSearchDirectories' =
                  headerSearchDirectories \cup RootsOfLevel(ds)
           /\ filePathsToProcess' = NextUnprocessedFilePaths(ds, processed)
    /\ extractCount' = CountExtractions(filePathsToProcess)
    /\ expandedPaths' = expandedPaths \cup filePathsToProcess
    /\ stepParity' = ~stepParity
    /\ UNCHANGED << inputs, pc, quantiles, i, directives,
                    unresolvedIncludeDirectives, ret, progressLog >>

\* line 108 fails: the quantile is finished
EndQuantileHeader ==
    /\ pc = "walk" /\ call = "header"
    /\ filePathsToProcess = {}
    /\ i' = i + 1
    /\ pc' = "quantile"
    /\ stepParity' = ~stepParity
    /\ UNCHANGED << inputs, quantiles, filePathsToProcess, processedFilePaths,
                    directives, unresolvedIncludeDirectives,
                    headerSearchDirectories, ret, progressLog, extractCount,
                    expandedPaths >>

\* lines 156-158
FinishHeader ==
    /\ pc = "quantile" /\ call = "header"
    /\ i >= Len(quantiles)
    /\ progressLog' = Append(progressLog, FinalProgress)
    /\ pc' = "done"
    /\ stepParity' = ~stepParity
    /\ UNCHANGED << inputs, quantiles, i, filePathsToProcess,
                    processedFilePaths, directives,
                    unresolvedIncludeDirectives, headerSearchDirectories, ret,
                    extractCount, expandedPaths >>

----------------------------------------------------------------------------
(* Inputs *)

PA == <<"/", "p", "a">>
PB == <<"/", "p", "b">>
PC == <<"/", "c">>
XB == <<"/", "x", "b">>
XE == <<"/", "x", "e">>

\* candidate texts of /p/a
ContentsA ==
    { << AngleLine(<<"v">>), << >>, QuoteLine(<<"b">>) >>,
      << QuoteLine(<<"a">>) >>,
      << QuoteLine(<<"b">>), QuoteLine(<<"..", "p", "b">>) >>,
      << QuoteLine(<<"/", "p", "b">>), AngleLine(<<"m">>) >>,
      << AngleLine(<<"e">>), QuoteLine(<<"b">>) >>,
      << QuoteLine(<<"x", "e">>) >> }

\* candidate texts of /p/b
ContentsB ==
    { << >>,
      << AngleLine(<<"m">>) >>,
      << QuoteLine(<<"a">>) >>,
      << QuoteLine(<<"..", "p", "b">>) >> }

\* candidate texts of /x/e
ContentsE ==
    { << AngleLine(<<"m">>) >>,
      << QuoteLine(<<"..", "p", "a">>), AngleLine(<<"m">>) >> }

\* the text of /c
ContentC == << <<"#", "define", " ", "e">>, AngleLine(<<"b">>) >>

\* the text of /x/b
ContentXB == << <<"int", " ", "v">>, AngleLine(<<"e">>) >>

FileSystems ==
    { [f \in Files |->
         CASE f = PA -> ca [] f = PB -> cb [] f = XE -> ce
           [] f = PC -> ContentC [] OTHER -> ContentXB] :
      ca \in ContentsA, cb \in ContentsB, ce \in ContentsE }

\* a source file that does not exist
PM == <<"/", "p", "m">>

\* source files as the caller spells them; <<"a">> is /p/a relative to Cwd
SourceSets == (SUBSET { PA, <<"a">>, PB, PC }) \cup { { PB, PC, PM } }

SearchDirectorySets ==
    { {}, { <<"/", "x">> }, { <<"..", "x">> }, { <<"/", "p">>, <<"/", "x">> } }

IndexedPathSets == { {}, { <<"/", "p">> }, { <<"/", "p">>, <<"/", "x">> } }

SearchedPathSets ==
    { {}, { <<"/", "x">> }, { <<"/", "p">>, <<"/", "x">> }, { <<"/">> } }

Init ==
    /\ fileContent \in FileSystems
    /\ sourceFilePaths \in SourceSets
    /\ currentHeaderSearchDirectories \in SearchDirectorySets
    /\ desiredQuantileCount \in 0..MaxQuantileCount
    /\ \/ call = "unresolved" /\ indexedPaths \in IndexedPathSets
          /\ searchedPaths = {}
       \/ call = "header" /\ searchedPaths \in SearchedPathSets
          /\ indexedPaths = {}
    /\ pc = "start"
    /\ quantiles = << >>
    /\ i = 0
    /\ filePathsToProcess = {}
    /\ processedFilePaths = {}
    /\ directives = << >>
    /\ unresolvedIncludeDirectives = << >>
    /\ headerSearchDirectories = {}
    /\ ret = << >>
    /\ progressLog = << >>
    /\ extractCount = [f \in Files |-> 0]
    /\ expandedPaths = {}
    /\ stepParity = FALSE

Next ==
    \/ BeginUnresolved
    \/ QuantileUnresolved
    \/ LevelUnresolved
    \/ ReturnUnresolved
    \/ FinishUnresolved
    \/ BeginHeader
    \/ QuantileHeader
    \/ LevelHeader
    \/ EndQuantileHeader
    \/ FinishHeader

Spec == Init /\ [][Next]_vars

\* the include graphs with a cycle: /p/a includes itself, or /p/a and /p/b
\* include each other, or /p/b includes itself under a dotted spelling
CyclicFileSystems ==
    { fs \in FileSystems :
        /\ fs[XE] = << AngleLine(<<"m">>) >>
        /\ fs[PA] \in { << QuoteLine(<<"a">>) >>,
                        << QuoteLine(<<"b">>), QuoteLine(<<"..", "p", "b">>) >> }
        /\ fs[PB] \in { << QuoteLine(<<"a">>) >>,
                        << QuoteLine(<<"..", "p", "b">>) >> } }

CyclicInit ==
    /\ Init
    /\ fileContent \in CyclicFileSystems
    /\ currentHeaderSearchDirectories \in { {}, { <<"/", "p">>, <<"/", "x">> } }
    /\ indexedPaths \in { {}, { <<"/", "p">> } }
    /\ searchedPaths \in { {}, { <<"/", "x">> } }

\* a step of the running thread
Advance == pc # "done" /\ stepParity' = ~stepParity

\* the call is one thread running to completion: while it has not returned
\* it keeps taking steps.  Checked over the cyclic include graphs.
FairSpec == CyclicInit /\ [][Next]_vars /\ WF_stepParity(Advance)

----------------------------------------------------------------------------
(* The extractor on its own: getIncludeDirectives over arbitrary texts *)

\* the lines a text is made of.  A word is split where a prefix test can
\* tell: include_next is "include" followed by "_next"
ExtractLines ==
    { AngleLine(<<"a">>),
      QuoteLine(<<"b">>),
      << >>,
      <<"#", "define", " ", "e">>,
      <<"int", " ", "v">>,
      <<"include", " ", "<", "a", ">">>,
      <<"/", "/", " ", "#", "include", " ", "<", "a", ">">>,
      <<"#", "include", " ", "<", "a">>,
      <<"#", "include", " ", "\"", "\"">>,
      <<"#", "include", " ", "<", ">", " ", "\"", "b", "\"">>,
      <<"#", "include", " ", "\"", "b", "\"", " ", "<", "a", ">">>,
      <<"#", "include", "_next", " ", "<", "a", ">">> }

ExtractTexts == UNION { [1..n -> ExtractLines] : n \in 0..MaxLines }

ExtractInit ==
    /\ fileContent \in
           { [f \in Files |-> IF f = PA THEN t ELSE << >>] : t \in ExtractTexts }
    /\ call = "extract"
    /\ sourceFilePaths = { PA }
    /\ currentHeaderSearchDirectories = {}
    /\ desiredQuantileCount = 0
    /\ indexedPaths = {}
    /\ searchedPaths = {}
    /\ pc = "start"
    /\ quantiles = << >>
    /\ i = 0
    /\ filePathsToProcess = {}
    /\ processedFilePaths = {}
    /\ directives = << >>
    /\ unresolvedIncludeDirectives = << >>
    /\ headerSearchDirectories = {}
    /\ ret = << >>
    /\ progressLog = << >>
    /\ extractCount = [f \in Files |-> 0]
    /\ expandedPaths = {}
    /\ stepParity = FALSE

\* lines 161-201: one call of getIncludeDirectives(filePath)
ExtractDirectives ==
    /\ pc = "start" /\ call = "extract"
    /\ \E filePath \in sourceFilePaths :
           directives' = getIncludeDirectives(filePath)
    /\ pc' = "done"
    /\ stepParity' = ~stepParity
    /\ UNCHANGED << inputs, quantiles, i, filePathsToProcess,
                    processedFilePaths, unresolvedIncludeDirectives,
                    headerSearchDirectories, ret, progressLog, extractCount,
                    expandedPaths >>

ExtractSpec == ExtractInit /\ [][ExtractDirectives]_vars

----------------------------------------------------------------------------
(* Claims *)

Done == pc = "done"

\* the files the caller seeded, by canonical path
SeededFiles == { makeCanonical(getAbsolute(q)) : q \in sourceFilePaths }

\* C1: both getUnresolvedIncludeDirectives and getHeaderSearchDirectories
\* terminate on every file system and include graph, cycles included: the
\* call eventually returns.
C1_BothWalksTerminate == <>Done

\* C2: within one call of getUnresolvedIncludeDirectives the directives of
\* every file, seeded or reached through an include, are extracted at most
\* once, for every shard count.
C2_ExtractedAtMostOnce ==
    call = "unresolved" => \A f \in Files : extractCount[f] <= 1

\* C3: in getHeaderSearchDirectories a file reached through includes under
\* two textual spellings has its directives extracted at most once per
\* call, the memo being keyed by the canonical absolute path.
C3_IncludedFileExtractedAtMostOnce ==
    call = "header" =>
        \A f \in Files \ SeededFiles : extractCount[f] <= 1

\* the elements of a sequence
Range(s) == { s[k] : k \in 1..Len(s) }

\* the path lies under one of the indexed paths
InBoundary(q) == \E indexedPath \in indexedPaths : contains(indexedPath, q)

\* the three ways a directive can resolve against the known search roots
ResolvesAsAbsolute(d) == isAbsolute(d.includedFile) /\ exists(d.includedFile)

RelativeToIncluder(d) ==
    concatenate(getParentDirectory(d.includingFile), d.includedFile)

UnderSearchRoots(d) ==
    { concatenate(r, d.includedFile) : r \in currentHeaderSearchDirectories }

Resolvable(d) ==
    \/ ResolvesAsAbsolute(d)
    \/ exists(RelativeToIncluder(d))
    \/ \E q \in UnderSearchRoots(d) : exists(q)

\* every directive recorded as unresolved, at any stage of the call
RecordedUnresolved ==
    Range(directives) \cup Range(unresolvedIncludeDirectives) \cup Range(ret)

\* the directives of the files that were expanded so far
ExpandedDirectives ==
    UNION { Range(getIncludeDirectives(q)) : q \in expandedPaths }

\* C4: in getUnresolvedIncludeDirectives a file outside every indexed path
\* that is reached through an include is never put on the frontier, the
\* include that resolves to it is not reported, and no directive of such a
\* file is reported.
C4_BoundaryContainment ==
    call = "unresolved" =>
        /\ \A q \in filePathsToProcess \cup expandedPaths :
               q \in sourceFilePaths \/ InBoundary(q)
        /\ \A d \in RecordedUnresolved :
               /\ ~Resolvable(d)
               /\ d.includingFile \in sourceFilePaths \/ InBoundary(d.includingFile)

\* C4 witness: the call returned; an expanded file includes a file outside
\* the indexed paths that holds an unresolvable include, and neither the
\* file was expanded nor its include reported.
C4_Witness ==
    /\ Done /\ call = "unresolved"
    /\ \E d \in ExpandedDirectives :
         LET r == makeCanonical(RelativeToIncluder(d))
         IN  /\ exists(RelativeToIncluder(d))
             /\ ~InBoundary(r)
             /\ r \notin SeededFiles
             /\ extractCount[r] = 0
             /\ \E n \in Range(getIncludeDirectives(r)) :
                  /\ ~Resolvable(n)
                  /\ \A u \in Range(ret) : u.includedFile # n.includedFile

\* the files a call of getUnresolvedIncludeDirectives is to expand: the
\* seeds, and what resolved includes inside the indexed paths lead to
ResolutionTarget(d) ==
    IF ResolvesAsAbsolute(d) THEN Target(d.includedFile)
    ELSE IF exists(RelativeToIncluder(d)) THEN Target(RelativeToIncluder(d))
    ELSE LET hits == { r \in currentHeaderSearchDirectories :
                         exists(concatenate(r, d.includedFile)) }
         IN  IF hits = {} THEN << >>
             ELSE Target(concatenate(
                    CHOOSE r \in hits : \A o \in hits \ {r} : PathLess(r, o),
                    d.includedFile))

RECURSIVE ExpansionClosure(_)
ExpansionClosure(S) ==
    LET more == { ResolutionTarget(d) :
                    d \in UNION { Range(getIncludeDirectives(f)) : f \in S } }
        grown == S \cup { r \in more : r # << >> /\ InBoundary(r) }
    IN  IF grown = S THEN S ELSE ExpansionClosure(grown)

FilesToExpand == ExpansionClosure(SeededFiles)

ExpectedUnresolvedPaths ==
    { d.includedFile :
        d \in { n \in UNION { Range(getIncludeDirectives(f)) : f \in FilesToExpand } :
                  ~Resolvable(n) } }

\* the round-trip example: a.cpp includes <vector> on line 1 and "b.h" on
\* line 3, b.h includes <missing.h> on line 1
RoundTripExample ==
    /\ call = "unresolved"
    /\ fileContent[PA] = << AngleLine(<<"v">>), << >>, QuoteLine(<<"b">>) >>
    /\ fileContent[PB] = << AngleLine(<<"m">>) >>
    /\ sourceFilePaths = { PA }
    /\ indexedPaths = { <<"/", "p">> }
    /\ currentHeaderSearchDirectories = {}

\* C5: getUnresolvedIncludeDirectives returns exactly the unresolved
\* includes of the expanded files; no returned directive resolves; in the
\* round-trip example the result is the directives for <missing.h> of b.h
\* and <vector> of a.cpp.
C5_ExactlyTheUnresolved ==
    (Done /\ call = "unresolved") =>
        /\ { d.includedFile : d \in Range(ret) } = ExpectedUnresolvedPaths
        /\ \A d \in Range(ret) : ~Resolvable(d)
        /\ RoundTripExample =>
             ret = << IncludeDirective(<<"m">>, PB, 1, TRUE),
                      IncludeDirective(<<"v">>, PA, 1, TRUE) >>

\* C5 witness: the round-trip example has returned
C5_Witness == Done /\ RoundTripExample /\ Len(ret) = 2

\* C6: resolveIncludeDirective returns the written path if it is absolute
\* and exists; else the including file's directory joined with it if that
\* exists, whatever the search roots hold and whatever the bracket form;
\* else an existing search-root concatenation; else the empty path.  What
\* it returns non-empty exists.  Looked at inside the walks, where the
\* directives of a level have just been resolved: files are expanded there
\* and nowhere else.
C6_ResolutionPrecedence ==
    pc = "walk" =>
      \A d \in ExpandedDirectives :
        LET r == resolveIncludeDirective(d, currentHeaderSearchDirectories)
        IN  /\ ResolvesAsAbsolute(d) => r = d.includedFile
            /\ (~ResolvesAsAbsolute(d) /\ exists(RelativeToIncluder(d)))
                   => r = RelativeToIncluder(d)
            /\ (~ResolvesAsAbsolute(d) /\ ~exists(RelativeToIncluder(d))
                  /\ Resolvable(d))
                   => (r \in UnderSearchRoots(d) /\ exists(r))
            /\ ~Resolvable(d) => r = << >>
            /\ r # << >> => exists(r)

\* C6 witness: an expanded directive resolves relative to its including
\* file and also, to another path, under a search root
C6_Witness ==
    /\ pc = "walk"
    /\ \E d \in ExpandedDirectives :
         /\ ~ResolvesAsAbsolute(d)
         /\ exists(RelativeToIncluder(d))
         /\ \E q \in UnderSearchRoots(d) :
              exists(q) /\ q # RelativeToIncluder(d)

\* the positions of the shards: <<k, j>> is entry j of shard k
ShardEntries ==
    UNION { { <<k, j>> : j \in 1..Len(quantiles[k]) } : k \in 1..Len(quantiles) }

\* the shards hold every source file exactly once and nothing else
ExactPartition ==
    /\ \A q \in sourceFilePaths :
           Cardinality({ e \in ShardEntries : quantiles[e[1]][e[2]] = q }) = 1
    /\ \A e \in ShardEntries : quantiles[e[1]][e[2]] \in sourceFilePaths

\* C7 as claimed: splitToQuantiles returns between 1 and min(K, N) shards
\* that hold every input file exactly once and nothing else, N = 0 and
\* K = 0 included.
C7_AtMostMinShards ==
    pc # "start" =>
        /\ 1 <= Len(quantiles)
        /\ Len(quantiles) <= Min(desiredQuantileCount,
                                 Cardinality(sourceFilePaths))
        /\ ExactPartition

\* C7 as amended: splitToQuantiles returns between 1 and max(1, min(K, N))
\* shards (one shard when K = 0 or N = 0) that hold every input file exactly
\* once and nothing else.
C7_ShardsPartitionTheSources ==
    pc # "start" =>
        /\ 1 <= Len(quantiles)
        /\ Len(quantiles) <=
               (IF desiredQuantileCount = 0 \/ sourceFilePaths = {} THEN 1
                ELSE IF desiredQuantileCount < Cardinality(sourceFilePaths)
                     THEN desiredQuantileCount
                     ELSE Cardinality(sourceFilePaths))
        /\ ExactPartition

\* C7 witness: several shards, one of them with several files
C7_Witness ==
    /\ pc # "start"
    /\ Len(quantiles) >= 2
    /\ \E k \in 1..Len(quantiles) : Len(quantiles[k]) >= 2

\* order and equality of progress values
ValueLeq(a, b) == a.num * b.den <= b.num * a.den
ValueEq(a, b) == a.num * b.den = b.num * a.den
IsOne(a) == a.num = a.den

ShardSequenceFrom(from) ==
    LET n == Len(quantiles)
    IN  /\ Len(progressLog) = from + n + 1
        /\ \A k \in 1..n :
               ValueEq(progressLog[from + k], [num |-> k - 1, den |-> n])
        /\ IsOne(progressLog[from + n + 1])

\* C9 as claimed: in both calls the callback sequence is exactly
\* 0/n, 1/n, ..., (n-1)/n, 1.0, that is n + 1 invocations for n shards.
C9_OneCallbackPerShard == Done => ShardSequenceFrom(0)

\* C9 as amended: getUnresolvedIncludeDirectives reports exactly
\* 0/n, ..., (n-1)/n, 1.0 (n + 1 invocations); getHeaderSearchDirectories
\* reports 0.0 once more before the shards, n + 2 invocations in all.
C9_CallbackSequence ==
    Done =>
        IF call = "unresolved" THEN ShardSequenceFrom(0)
        ELSE /\ progressLog # << >>
             /\ progressLog[1].num = 0
             /\ ShardSequenceFrom(1)

\* C9 witness: getHeaderSearchDirectories returned after two shards
C9_Witness == Done /\ call = "header" /\ Len(quantiles) = 2

\* the snapshots that report a root under which the written path exists
MatchingSnapshots(d) ==
    { t \in searchedPaths :
        LET R == getAbsoluteRootPathForRelativeFilePath(t, d.includedFile)
        IN  R # << >> /\ exists(concatenate(R, d.includedFile)) }

\* the root a directive contributes: none if it resolves, else the root
\* reported by the first matching snapshot
InferredRoot(d) ==
    IF Resolvable(d) \/ MatchingSnapshots(d) = {} THEN << >>
    ELSE getAbsoluteRootPathForRelativeFilePath(
             CHOOSE t \in MatchingSnapshots(d) :
                 \A o \in MatchingSnapshots(d) \ {t} : PathLess(t, o),
             d.includedFile)

\* the discovery example: a source file includes "x/e", which only the
\* snapshot of / holds, as /x/e
DiscoveryExample ==
    /\ call = "header"
    /\ fileContent[PA] = << QuoteLine(<<"x", "e">>) >>
    /\ sourceFilePaths = { PA }
    /\ searchedPaths = { <<"/">> }
    /\ currentHeaderSearchDirectories = {}

\* C10: getHeaderSearchDirectories holds exactly the roots inferred for the
\* directives of the expanded files: none for a directive that resolves,
\* else the root of the first snapshot under which the written path exists;
\* once the call returned, the file found through the snapshot is processed
\* and was expanded; the discovery example yields the one root.
C10_ExactlyTheInferredRoots ==
    call = "header" =>
        /\ headerSearchDirectories =
               { InferredRoot(d) : d \in ExpandedDirectives } \ { << >> }
        /\ Done =>
             \A d \in ExpandedDirectives :
                 InferredRoot(d) # << >> =>
                     LET found == concatenate(InferredRoot(d), d.includedFile)
                     IN  /\ found \in processedFilePaths
                         /\ extractCount[Target(found)] >= 1
        /\ (Done /\ DiscoveryExample) => headerSearchDirectories = { <<"/">> }

\* C10 witness: the call returned; two snapshots hold the written path of an
\* unresolved directive under different roots and the first one's root was
\* recorded
C10_Witness ==
    /\ Done /\ call = "header"
    /\ \E d \in ExpandedDirectives :
         /\ Cardinality(MatchingSnapshots(d)) >= 2
         /\ InferredRoot(d) \in headerSearchDirectories
         /\ \E t \in MatchingSnapshots(d) :
              getAbsoluteRootPathForRelativeFilePath(t, d.includedFile)
                  \notin headerSearchDirectories

\* the included paths of a sequence of directives are strictly ascending
StrictlyAscending(s) ==
    \A k \in 1..Len(s) :
        /\ k > 1 => PathLess(s[k - 1].includedFile, s[k].includedFile)
        /\ \A j \in 1..(k - 1) : s[j].includedFile # s[k].includedFile

\* C11: the result of getUnresolvedIncludeDirectives, and the set it is
\* built in, holds at most one directive per included-file path and is
\* ordered strictly ascending by included-file path.
C11_SortedAndUnique ==
    call = "unresolved" =>
        /\ StrictlyAscending(unresolvedIncludeDirectives)
        /\ StrictlyAscending(ret)

\* C11 witness: the call returned several directives, and two expanded
\* files hold an unresolved include of the same written path
C11_Witness ==
    /\ Done /\ call = "unresolved"
    /\ Len(ret) >= 2
    /\ \E d1, d2 \in ExpandedDirectives :
         /\ d1.includingFile # d2.includingFile
         /\ d1.includedFile = d2.includedFile
         /\ ~Resolvable(d1) /\ ~Resolvable(d2)

\* C12: the outcome of getUnresolvedIncludeDirectives does not depend on the
\* sharding: for every desired shard count the processed files of a call
\* that returned are the seeds and what their includes lead to inside the
\* indexed paths, and the included paths of the result are the unresolved
\* includes of those files.  FilesToExpand and ExpectedUnresolvedPaths are
\* functions of the file system, the source set, the indexed paths and the
\* search roots alone, so two calls that differ in the shard count only
\* end with the same two sets.
C12_ShardCountIndependent ==
    (Done /\ call = "unresolved") =>
        /\ processedFilePaths = FilesToExpand
        /\ ExpectedUnresolvedPaths = { d.includedFile : d \in Range(ret) }

\* C12 witness: the call returned after two shards, each of which
\* contributed a directive of one of its own source files to the result
C12_Witness ==
    /\ Done /\ call = "unresolved"
    /\ Len(quantiles) = 2
    /\ \E d1, d2 \in Range(ret) :
         /\ d1.includingFile \in Range(quantiles[1])
         /\ d2.includingFile \in Range(quantiles[2])

\* the number of shards the partitioner is to produce: max(1, min(K, N))
ExpectedShardCount ==
    IF desiredQuantileCount = 0 \/ sourceFilePaths = {} THEN 1
    ELSE IF desiredQuantileCount < Cardinality(sourceFilePaths)
         THEN desiredQuantileCount
         ELSE Cardinality(sourceFilePaths)

\* the 0-based position of a source file in the sorted order of the set
SortedPosition(q) == Cardinality({ o \in sourceFilePaths : PathLess(o, q) })

\* C13: splitToQuantiles produces exactly max(1, min(K, N)) shards; the
\* file at position p of the sorted source set is entry p \div count of
\* shard p mod count, the shards hold nothing else, and the sorted order is
\* kept inside every shard.  Looked at where splitToQuantiles has just
\* returned: the shards are not assigned again.
C13_RoundRobinOverSortedOrder ==
    (pc = "quantile" /\ i = 0) =>
        LET count == Len(quantiles)
        IN  /\ count = ExpectedShardCount
            /\ \A q \in sourceFilePaths :
                   LET shard == quantiles[(SortedPosition(q) % count) + 1]
                       entry == (SortedPosition(q) \div count) + 1
                   IN  entry <= Len(shard) /\ shard[entry] = q
            /\ \A k \in 1..count :
                   /\ Len(quantiles[k]) =
                          Cardinality({ q \in sourceFilePaths :
                                          SortedPosition(q) % count = k - 1 })
                   /\ \A j \in 2..Len(quantiles[k]) :
                          PathLess(quantiles[k][j - 1], quantiles[k][j])

\* C13 witness: four source files were dealt to two shards of two files
C13_Witness ==
    /\ pc = "quantile" /\ i = 0
    /\ Cardinality(sourceFilePaths) = 4
    /\ Len(quantiles) = 2
    /\ Len(quantiles[1]) = 2 /\ Len(quantiles[2]) = 2

\* the search roots under which the written path of a directive exists
RootsHolding(d) ==
    { r \in currentHeaderSearchDirectories :
        exists(concatenate(r, d.includedFile)) }

\* C14: for a directive that resolves neither as an absolute path nor
\* relative to its including file, resolveIncludeDirective returns the
\* written path joined to the smallest, in sorted order, of the search roots
\* under which it exists, however many roots hold it.  Looked at inside the
\* walks, where the directives of a level have just been resolved.
C14_SmallestRootWins ==
    pc = "walk" =>
        \A d \in ExpandedDirectives :
            (~ResolvesAsAbsolute(d) /\ ~exists(RelativeToIncluder(d))
               /\ RootsHolding(d) # {})
            => \E r \in RootsHolding(d) :
                  /\ \A o \in RootsHolding(d) \ {r} : PathLess(r, o)
                  /\ resolveIncludeDirective(d, currentHeaderSearchDirectories)
                         = concatenate(r, d.includedFile)

\* C14 witness: an expanded directive resolves neither as absolute nor
\* relative to its file, and two search roots hold its written path
C14_Witness ==
    /\ pc = "walk"
    /\ \E d \in ExpandedDirectives :
         /\ ~ResolvesAsAbsolute(d)
         /\ ~exists(RelativeToIncluder(d))
         /\ Cardinality(RootsHolding(d)) >= 2

\* the key under which a walk marks a frontier file as processed
MemoKey(q) ==
    IF call = "unresolved" THEN makeCanonical(getAbsolute(q)) ELSE getAbsolute(q)

\* the directives of the source files
SeedDirectives ==
    UNION { Range(getIncludeDirectives(q)) : q \in sourceFilePaths }

\* C15: failure is data.  getIncludeDirectives of a file that does not
\* exist is empty; when a walk has returned, every shard was processed and
\* every source file, existing or not, was expanded and marked processed; no
\* directive is attributed to a file that does not exist; and in
\* getUnresolvedIncludeDirectives every unresolved include of every source
\* file is in the result and every resolved include of a source file inside
\* the indexed paths was processed, whatever else failed next to it.
C15_FailureIsData ==
    /\ \A q \in sourceFilePaths \cup expandedPaths :
           ~exists(q) => getIncludeDirectives(q) = << >>
    /\ \A d \in RecordedUnresolved : exists(d.includingFile)
    /\ Done =>
          /\ i = Len(quantiles)
          /\ \A q \in sourceFilePaths :
                 q \in expandedPaths /\ MemoKey(q) \in processedFilePaths
          /\ call = "unresolved" =>
                \A d \in SeedDirectives :
                    IF Resolvable(d)
                    THEN InBoundary(ResolutionTarget(d)) =>
                             ResolutionTarget(d) \in processedFilePaths
                    ELSE \E u \in Range(ret) : u.includedFile = d.includedFile

\* C15 witness: getUnresolvedIncludeDirectives returned; the first shard
\* held a source file that does not exist, and a directive of a source file
\* of the second shard is in the result
C15_Witness ==
    /\ Done /\ call = "unresolved"
    /\ Len(quantiles) = 2
    /\ \E q \in Range(quantiles[1]) : ~exists(q)
    /\ \E d \in Range(ret) : d.includingFile \in Range(quantiles[2])

\* the pieces that continue the word include
WordContinuations == { "_next" }

\* what is left of a line after the '#', or << >> if it does not start so
AfterHash(line) ==
    LET t == trim(line)
    IN  IF t # << >> /\ t[1] = "#" THEN trim(Tail(t)) ELSE << >>

\* the line is '#' followed by the token include
StartsWithIncludeToken(line) ==
    LET r == AfterHash(line)
    IN  /\ r # << >>
        /\ r[1] = "include"
        /\ Len(r) >= 2 => r[2] \notin WordContinuations

\* the text holds an opening delimiter with a closing one after it
PairFound(r, d1, d2) ==
    \E a, b \in 1..Len(r) : a < b /\ r[a] = d1 /\ r[b] = d2

\* the path the claim assigns to a line: that of the first <...> pair, and
\* that of the first "..." pair only if there is no <...> pair
ClaimedPath(line) ==
    LET r == AfterHash(line)
    IN  IF ~StartsWithIncludeToken(line) THEN << >>
        ELSE IF PairFound(r, "<", ">") THEN substrBetween(r, "<", ">")
        ELSE substrBetween(r, "\"", "\"")

\* C16: getIncludeDirectives(textAccess) emits one directive for each line
\* that, trimmed, starts with '#' followed, trimmed again, by the token
\* include and has a non-empty delimited path, and for no other line; the
\* path is the content of the first <...> pair, the first "..." pair being
\* tried only if there is no <...> pair; usesAngleBrackets tells that the
\* path came from <...>; the line number is the 1-based position of the
\* line, and the directives are in ascending line order.
C16_OneDirectivePerIncludeLine ==
    (Done /\ call = "extract") =>
        LET lines == fileContent[PA]
        IN  /\ \A k \in 1..Len(lines) :
                   ClaimedPath(lines[k]) # << >> <=>
                       \E d \in Range(directives) : d.lineNumber = k
            /\ \A n \in 1..Len(directives) :
                   LET d == directives[n]
                   IN  /\ d.lineNumber \in 1..Len(lines)
                       /\ d.includingFile = PA
                       /\ d.includedFile = ClaimedPath(lines[d.lineNumber])
                       /\ d.usesBrackets =
                              PairFound(AfterHash(lines[d.lineNumber]), "<", ">")
                       /\ n > 1 => directives[n - 1].lineNumber < d.lineNumber

\* C17: in getUnresolvedIncludeDirectives the indexed paths bound the files
\* reached through includes only: when the call has returned, every source
\* file was expanded, its directives were extracted if it exists, and each
\* of its unresolved includes is in the result, whether or not an indexed
\* path contains the file and also when there is no indexed path.
C17_SeedsAreAlwaysExpanded ==
    (Done /\ call = "unresolved") =>
        \A q \in sourceFilePaths :
            /\ q \in expandedPaths
            /\ exists(q) => extractCount[Target(q)] >= 1
            /\ \A d \in Range(getIncludeDirectives(q)) :
                   Resolvable(d) \/ d.includedFile \in
                       { u.includedFile : u \in Range(ret) }

\* C17 witness: the call returned with no indexed path at all, and the
\* result holds a directive of a source file
C17_Witness ==
    /\ Done /\ call = "unresolved"
    /\ indexedPaths = {}
    /\ \E q \in sourceFilePaths :
         /\ exists(q)
         /\ extractCount[Target(q)] >= 1
         /\ \E d \in Range(ret) : d.includingFile = q

\* d comes before e in the order in which one level is traversed: by
\* including file in sorted order, then by line
BeforeInLevel(d, e) ==
    \/ PathLess(d.includingFile, e.includingFile)
    \/ d.includingFile = e.includingFile /\ d.lineNumber < e.lineNumber

\* the first directive of a sequence that has the included path w
FirstWithPath(ds, w) ==
    ds[CHOOSE k \in 1..Len(ds) :
           /\ ds[k].includedFile = w
           /\ \A j \in 1..(k - 1) : ds[j].includedFile # w]

\* one step of getUnresolvedIncludeDirectives keeps the traversal order:
\* a level appends its unresolved directives to those of the earlier levels
\* of the shard, by including file and then by line; the shards are merged
\* one after the other; a merge keeps every directive the set holds, and
\* what it adds for a new path is the shard's first directive of that path
KeepsFirstEncountered(before, after, shard, shardAfter, level, index, indexAfter) ==
    /\ indexAfter \in { index, index + 1 }
    /\ indexAfter = index =>
          \/ shardAfter = << >>
          \/ /\ Len(shard) <= Len(shardAfter)
             /\ SubSeq(shardAfter, 1, Len(shard)) = shard
             /\ \A k \in (Len(shard) + 1)..Len(shardAfter) :
                    /\ shardAfter[k].includingFile \in level
                    /\ \A j \in (Len(shard) + 1)..(k - 1) :
                           BeforeInLevel(shardAfter[j], shardAfter[k])
    /\ \A d \in Range(before) : d \in Range(after)
    /\ \A n \in Range(after) \ Range(before) :
           /\ indexAfter = index + 1
           /\ \A d \in Range(before) : d.includedFile # n.includedFile
           /\ \E k \in 1..Len(shard) : shard[k].includedFile = n.includedFile
           /\ n = FirstWithPath(shard, n.includedFile)

\* C18: of several unresolved directives with the same included path the
\* result of getUnresolvedIncludeDirectives keeps the first in traversal
\* order: lowest shard, then earliest level of the shard, then smallest
\* including file in sorted order, then lowest line.  A later duplicate
\* never replaces an earlier one, and the result returned is that set.
C18_FirstEncounteredSurvives ==
    [][ call = "unresolved" =>
          /\ KeepsFirstEncountered(unresolvedIncludeDirectives,
                                   unresolvedIncludeDirectives',
                                   directives, directives',
                                   filePathsToProcess, i, i')
          /\ ret' # ret => ret' = unresolvedIncludeDirectives ]_vars

\* C18 witness: the call returned after two shards; both held an unresolved
\* include of the same written path, in different files, and the result
\* holds the one of the first shard
C18_Witness ==
    /\ Done /\ call = "unresolved"
    /\ Len(quantiles) = 2
    /\ \E d1 \in Range(ret) :
         \E d2 \in ExpandedDirectives \ Range(ret) :
             /\ d1.includedFile = d2.includedFile
             /\ ~Resolvable(d2)
             /\ d1.includingFile \in Range(quantiles[1])
             /\ d2.includingFile \in Range(quantiles[2])

\* C19: the shards of splitToQuantiles are balanced.  The sizes of any two
\* shards differ by at most 1; if there is a source file no shard is empty;
\* if there is none the result is one empty shard.
C19_ShardsBalanced ==
    pc # "start" =>
        /\ \A k, l \in 1..Len(quantiles) :
               Len(quantiles[k]) - Len(quantiles[l]) <= 1
        /\ sourceFilePaths # {} =>
               \A k \in 1..Len(quantiles) : quantiles[k] # << >>
        /\ sourceFilePaths = {} => quantiles = << << >> >>

\* C19 witness: three source files were split into a shard of two and a
\* shard of one
C19_Witness ==
    /\ pc # "start"
    /\ Cardinality(sourceFilePaths) = 3
    /\ Len(quantiles) = 2
    /\ Len(quantiles[1]) = 2 /\ Len(quantiles[2]) = 1

====
